---- MODULE Spec2Model ----
(***************************************************************************)
(* A model of bin/asl2c.py: the generator of asli pipeline scripts and the *)
(* build/run driver around it.                                             *)
(*                                                                         *)
(* Text is modelled by what the code does with it.  A line of the script   *)
(* is a record [colon, words]: colon says that the line starts with ":"    *)
(* (what l.startswith(":") tests) and words are the whitespace separated   *)
(* words of the line (what l.split() returns), the leading ":" removed.    *)
(* A word is the sequence of the pieces an f-string concatenates, so that  *)
(* f"--output-dir={d}" is <<"--output-dir=", d>>.                          *)
(***************************************************************************)
EXTENDS Integers, Sequences, FiniteSets, TLC

VARIABLES
    cmdline,    \* the command line as argparse parses it, fixed for all runs
    args,       \* main's args: the parsed command line, as main changes it
    env,        \* the process environment and the location of the script
    pc,         \* the position of main
    status,     \* the exit status of the process, NotExited while it runs
    err,        \* why the process ended: "none" or the failure raised
    fs,         \* the file system: directory -> [exists, files]
    workdir,    \* main's working_directory, NoDir before it is acquired
    script,     \* main's script (the text mk_script returned)
    c_flags,    \* main's c_flags  (get_c_flags' result)
    ld_flags,   \* main's ld_flags (get_ld_flags' result)
    cc,         \* compile_and_link's cc: the words of the compiler command
    todo_c,     \* compile_and_link: the extra C files not yet compiled
    stdout,     \* what print() wrote for the user: a sequence of lines
    events,     \* the externally visible steps of this session, in order
    session,    \* the number of the session (runs of the same command line)
    gens        \* the distinct script texts mk_script has returned so far

vars == <<cmdline, args, env, pc, status, err, fs, workdir, script, c_flags, ld_flags,
          cc, todo_c, stdout, events, session, gens>>

----------------------------------------------------------------------------
\* Bounds of the model

\* at most this many settings (options, environment) differ from the default
MaxOptions == 2
\* the same command line is run at most this many times in a row
MaxSessions == 2
\* the non-zero exit statuses a subprocess may end with are 1..MaxExit
MaxExit == 2

ExitCodes == 0..MaxExit
\* the names tempfile.mkdtemp(prefix="asltest.") may return: one per session
TempName(i) ==
    CASE i = 1 -> "/tmp/asltest.a" [] i = 2 -> "/tmp/asltest.b"
      [] i = 3 -> "/tmp/asltest.c" [] OTHER -> "/tmp/asltest.d"
TempNames == { TempName(i) : i \in 1..MaxSessions }
NotExited == -1
NoDir == "<none>"

----------------------------------------------------------------------------
\* Text

W(s) == <<s>>
Ws(ss) == [i \in 1..Len(ss) |-> <<ss[i]>>]
Dir(ws) == [colon |-> TRUE, words |-> ws]
Txt(ws) == [colon |-> FALSE, words |-> ws]
Blank == [colon |-> FALSE, words |-> <<>>]
Comment == [colon |-> FALSE, words |-> <<W("//")>>]

Digit(d) ==
    CASE d = 0 -> "0" [] d = 1 -> "1" [] d = 2 -> "2" [] d = 3 -> "3"
      [] d = 4 -> "4" [] d = 5 -> "5" [] d = 6 -> "6" [] d = 7 -> "7"
      [] d = 8 -> "8" [] d = 9 -> "9"

RECURSIVE Str(_)
\* str(n) of a natural number, as its decimal digits
Str(n) == IF n < 10 THEN <<Digit(n)>> ELSE Str(n \div 10) \o <<Digit(n % 10)>>

\* f"{i:02}": decimal, padded with zeros to at least two digits
Fmt02(i) == IF i < 10 THEN <<"0">> \o Str(i) ELSE Str(i)

\* Python truth of a string, a number, a list
TruthyS(s) == s # ""
TruthyN(n) == n # 0
TruthyL(l) == Len(l) > 0

----------------------------------------------------------------------------
\* The command line and the environment

\* argparse's defaults (main, the add_argument calls); argv stands for
\* sys.argv, of which the model keeps the program name only
DefaultArgs ==
    [ argv |-> <<"bin/asl2c.py">>,
      intermediates |-> "", output_dir |-> "", basename |-> "asl",
      num_c_files |-> 1, configuration |-> <<>>, auto_case_split |-> FALSE,
      const_ref |-> 0, constraint_checks |-> FALSE, extra_c |-> <<>>,
      exports |-> <<>>, generate_cxx |-> FALSE, imports |-> <<>>,
      line_info |-> FALSE, new_ffi |-> FALSE, runtime_checks |-> FALSE,
      split_state |-> FALSE, transform_int_slices |-> FALSE,
      instrument_unknown |-> FALSE, wrap_variables |-> FALSE,
      O0 |-> FALSE, Obounded |-> FALSE, backend |-> "c23",
      print_c_flags |-> FALSE, print_ld_flags |-> FALSE,
      build |-> FALSE, run |-> FALSE, show_final_asl |-> FALSE,
      working_dir |-> "", save_temps |-> FALSE, asl_files |-> <<>> ]

\* the choices of --backend
Backends == {"ac", "c23", "interpreter", "fallback", "mlir", "sc"}

\* the environment asl2c.py reads: the two variables of the module level
\* lookups, the directory the script is in (a path, as its components) and
\* whether a file "asli" is beside it; CC and the compilers that `which`
\* finds, for compile_and_link
DefaultEnv ==
    [ AC_TYPES_DIR |-> "", SC_TYPES_DIR |-> "",
      here |-> <<"src", "asli", "_build", "install", "default", "bin">>,
      asli_exists |-> TRUE, CC |-> "", installed |-> {"clang-18"} ]

ArgFields == DOMAIN DefaultArgs
EnvFields == DOMAIN DefaultEnv

\* the settings that differ from the default, one option each; the name of
\* an extra C file is <<directory part, stem, extension>>
Overrides ==
    { <<"intermediates", "log">>, <<"output_dir", "genc">>,
      <<"num_c_files", 8>>, <<"configuration", <<"more.json">> >>,
      <<"auto_case_split", TRUE>>, <<"const_ref", 4>>,
      <<"extra_c", << <<"mylib/", "aux", ".c">> >> >>, <<"exports", <<"Reset", "Step">> >>,
      <<"generate_cxx", TRUE>>, <<"imports", <<"TraceMemRead">> >>,
      <<"line_info", TRUE>>, <<"new_ffi", TRUE>>, <<"split_state", TRUE>>,
      <<"transform_int_slices", TRUE>>, <<"instrument_unknown", TRUE>>,
      <<"wrap_variables", TRUE>>, <<"O0", TRUE>>, <<"Obounded", TRUE>>,
      <<"print_c_flags", TRUE>>, <<"print_ld_flags", TRUE>>,
      <<"build", TRUE>>, <<"run", TRUE>>, <<"show_final_asl", TRUE>>,
      <<"working_dir", "wd">>, <<"working_dir", "old">>,
      <<"save_temps", TRUE>>,
      <<"asl_files", <<"spec.asl">> >>,
      <<"AC_TYPES_DIR", "/opt/ac">>, <<"SC_TYPES_DIR", "/opt/sc">>,
      <<"here", <<"home", "u", ".opam", "default", "bin">> >>,
      <<"asli_exists", FALSE>>, <<"CC", "ccache cc">>,
      <<"installed", {"clang"}>>, <<"installed", {}>> }
    \cup { <<"backend", b>> : b \in Backends \ {"c23"} }

RECURSIVE Setups(_)
\* the defaults with at most k settings overridden
Setups(k) ==
    IF k = 0 THEN { DefaultArgs @@ DefaultEnv }
    ELSE LET S == Setups(k - 1)
         IN  S \cup { [s EXCEPT ![o[1]] = o[2]] : s \in S, o \in Overrides }

----------------------------------------------------------------------------
\* Script generation

\* mk_script: ffi = "--new-ffi" if args.build or args.new_ffi else ""
Ffi(a) == IF a.build \/ a.new_ffi THEN "--new-ffi" ELSE ""

\* the words of f'generate_c {ffi} --runtime=<r>': an empty ffi leaves two
\* blanks, which split() takes as one separator
GenerateCWords(ffi, runtime) ==
    <<W("generate_c")>> \o (IF ffi = "" THEN <<>> ELSE <<W(ffi)>>)
        \o <<W(runtime)>>

\* mk_script's table backend_generator, for a given ffi
backend_generator(ffi) ==
    [ ac       |-> GenerateCWords(ffi, "--runtime=ac"),
      c23      |-> GenerateCWords(ffi, "--runtime=c23"),
      fallback |-> GenerateCWords(ffi, "--runtime=fallback"),
      sc       |-> GenerateCWords(ffi, "--runtime=sc"),
      mlir     |-> <<W("generate_mlir")>> ]

\* generate_c as it would be with the file count of the minimal script
generate_c_OneFile(a, output_directory) ==
    backend_generator(Ffi(a))[a.backend]
      \o (IF TruthyN(a.const_ref)
          THEN << <<"--const-ref=">> \o Str(a.const_ref) >> ELSE <<>>)
      \o (IF a.generate_cxx THEN <<W("--generate-cxx")>> ELSE <<>>)
      \o (IF a.split_state THEN <<W("--split-state")>> ELSE <<>>)
      \o (IF a.backend # "mlir"
          THEN << <<"--output-dir=", output_directory>>,
                  <<"--basename=", a.basename>>,
                  W("--num-c-files=1"),
                  IF a.line_info THEN W("--line-info")
                                 ELSE W("--no-line-info") >>
          ELSE << <<"--output-file=", output_directory, "/asl.mlir">> >>)

\* mk_script: the generate_c string of the full script
generate_c(a, output_directory) ==
    backend_generator(Ffi(a))[a.backend]
      \o (IF TruthyN(a.const_ref)
          THEN << <<"--const-ref=">> \o Str(a.const_ref) >> ELSE <<>>)
      \o (IF a.generate_cxx THEN <<W("--generate-cxx")>> ELSE <<>>)
      \o (IF a.split_state THEN <<W("--split-state")>> ELSE <<>>)
      \o (IF a.backend # "mlir"
          THEN << <<"--output-dir=", output_directory>>,
                  <<"--basename=", a.basename>>,
                  <<"--num-c-files=">> \o Str(a.num_c_files),
                  IF a.line_info THEN W("--line-info")
                                 ELSE W("--no-line-info") >>
          ELSE << <<"--output-file=", output_directory, "/asl.mlir">> >>)

\* MinimalScript as it would be with the bounded-integer stage appended
\* ahead of the two filters
MinimalScript_BoundedFirst(a, output_directory) ==
    (IF a.Obounded THEN << Dir(Ws(<<"xform_bounded">>)) >> ELSE <<>>)
      \o << Dir(Ws(<<"filter_unlisted_functions", "imports">>)),
            Dir(Ws(<<"filter_reachable_from", "exports">>)) >>
      \o (IF a.show_final_asl
          THEN << Dir(Ws(<<"show", "--format=raw">>)) >>
          ELSE << Dir(backend_generator(Ffi(a))[a.backend]
                      \o << <<"--output-dir=", output_directory>>,
                            <<"--basename=", a.basename>>,
                            W("--num-c-files=1") >>) >>)

\* MinimalScript as it would be without the import filter
MinimalScript_NoImportFilter(a, output_directory) ==
    << Dir(Ws(<<"filter_reachable_from", "exports">>)) >>
      \o (IF a.Obounded THEN << Dir(Ws(<<"xform_bounded">>)) >> ELSE <<>>)
      \o (IF a.show_final_asl
          THEN << Dir(Ws(<<"show", "--format=raw">>)) >>
          ELSE << Dir(backend_generator(Ffi(a))[a.backend]
                      \o << <<"--output-dir=", output_directory>>,
                            <<"--basename=", a.basename>>,
                            W("--num-c-files=1") >>) >>)

\* mk_script: the script of the minimal mode (args.O0)
MinimalScript(a, output_directory) ==
    << Dir(Ws(<<"filter_unlisted_functions", "imports">>)),
       Dir(Ws(<<"filter_reachable_from", "exports">>)) >>
      \o (IF a.Obounded THEN << Dir(Ws(<<"xform_bounded">>)) >> ELSE <<>>)
      \o (IF a.show_final_asl
          THEN << Dir(Ws(<<"show", "--format=raw">>)) >>
          ELSE << Dir(backend_generator(Ffi(a))[a.backend]
                      \o << <<"--output-dir=", output_directory>>,
                            <<"--basename=", a.basename>>,
                            W("--num-c-files=1") >>) >>)

\* Substitutions as it would be with the bounded-integer stage and the
\* wrapping stage in each other's place
Substitutions_BoundedEarly(a, output_directory) ==
    [ command |-> Ws(a.argv),
      generate_c |-> generate_c(a, output_directory),
      suppress_bitslice_xform |->
          IF a.backend \in {"ac", "sc"} THEN <<W("--notransform")>> ELSE <<>>,
      track_valid |->
          IF a.instrument_unknown
          THEN Dir(Ws(<<"xform_valid", "track-valid">>)) ELSE Blank,
      wrap_variables |->
          IF a.Obounded THEN Dir(Ws(<<"xform_bounded">>)) ELSE Blank,
      auto_case_split |->
          IF ~a.auto_case_split THEN <<W("--no-auto-case-split")>>
                                ELSE <<W("--auto-case-split")>>,
      bounded_int |->
          IF a.wrap_variables THEN Dir(Ws(<<"xform_wrap">>)) ELSE Blank,
      xform_int_bitslices |-> Blank ]

\* Substitutions as it would be with "if args.auto_case_split" for the
\* "if not args.auto_case_split" of line 351
Substitutions_SplitInverted(a, output_directory) ==
    [ command |-> Ws(a.argv),
      generate_c |-> generate_c(a, output_directory),
      suppress_bitslice_xform |->
          IF a.backend \in {"ac", "sc"} THEN <<W("--notransform")>> ELSE <<>>,
      track_valid |->
          IF a.instrument_unknown
          THEN Dir(Ws(<<"xform_valid", "track-valid">>)) ELSE Blank,
      wrap_variables |->
          IF a.wrap_variables THEN Dir(Ws(<<"xform_wrap">>)) ELSE Blank,
      auto_case_split |->
          IF a.auto_case_split THEN <<W("--no-auto-case-split")>>
                               ELSE <<W("--auto-case-split")>>,
      bounded_int |->
          IF a.Obounded THEN Dir(Ws(<<"xform_bounded">>)) ELSE Blank,
      xform_int_bitslices |-> Blank ]

\* mk_script: the substitutions of the full script.  A substitution that
\* fills a line of its own is a line; one inside a line is a list of words.
Substitutions(a, output_directory) ==
    [ command |-> Ws(a.argv),
      generate_c |-> generate_c(a, output_directory),
      suppress_bitslice_xform |->
          IF a.backend \in {"ac", "sc"} THEN <<W("--notransform")>> ELSE <<>>,
      track_valid |->
          IF a.instrument_unknown
          THEN Dir(Ws(<<"xform_valid", "track-valid">>)) ELSE Blank,
      wrap_variables |->
          IF a.wrap_variables THEN Dir(Ws(<<"xform_wrap">>)) ELSE Blank,
      auto_case_split |->
          IF ~a.auto_case_split THEN <<W("--no-auto-case-split")>>
                                ELSE <<W("--auto-case-split")>>,
      bounded_int |->
          IF a.Obounded THEN Dir(Ws(<<"xform_bounded">>)) ELSE Blank,
      xform_int_bitslices |-> Blank ]

\* base_script.format(**sub): the template, block by block.  Each block of
\* comment lines of the template is one Comment line here; the header's
\* line naming the command is kept, since it takes a substitution.
base_script(sub) ==
    << Comment,
       Txt(Ws(<<"//", "Generated", "by", "command:">>) \o sub.command),
       Blank, Comment,
       Dir(Ws(<<"filter_reachable_from", "--keep-builtins", "exports">>)),
       Blank, Comment, Blank, Comment,
       Dir(Ws(<<"xform_named_type">>)),
       Blank, Comment,
       Dir(Ws(<<"xform_desugar">>)),
       Blank, Comment,
       Dir(Ws(<<"xform_bittuples">>)),
       Blank, Comment,
       Dir(Ws(<<"xform_lower">>)),
       Blank,
       sub.xform_int_bitslices,
       Blank, Comment,
       Dir(Ws(<<"xform_getset">>)),
       Blank,
       sub.track_valid,
       Blank, Comment,
       Dir(Ws(<<"xform_constprop", "--nounroll">>)),
       Blank, Comment,
       Dir(<<W("xform_monomorphize")>> \o sub.auto_case_split),
       Blank, Comment,
       Dir(Ws(<<"filter_reachable_from", "--keep-builtins", "exports">>)),
       Blank, Comment,
       Dir(<<W("xform_monomorphize")>> \o sub.auto_case_split),
       Blank, Comment, Blank, Comment,
       Dir(Ws(<<"xform_tuples">>)),
       Blank, Comment,
       Dir(Ws(<<"xform_getset">>)),
       Blank, Comment,
       Dir(Ws(<<"xform_bittuples">>)),
       Blank, Comment,
       Dir(Ws(<<"xform_hoist_lets">>)),
       Blank, Comment,
       Dir(<<W("xform_bitslices")>> \o sub.suppress_bitslice_xform),
       Blank, Comment,
       Dir(Ws(<<"xform_case">>)),
       Blank,
       sub.wrap_variables,
       Blank, Comment,
       Dir(Ws(<<"xform_constprop", "--nounroll">>)),
       Blank, Comment,
       sub.bounded_int,
       Blank, Comment,
       Dir(Ws(<<"filter_unlisted_functions", "imports">>)),
       Blank, Comment,
       Dir(Ws(<<"filter_reachable_from", "exports">>)),
       Blank, Comment,
       Dir(Ws(<<"check_monomorphization", "--fatal", "--verbose">>)),
       Blank, Comment,
       Dir(sub.generate_c),
       Blank,
       Dir(Ws(<<"quit">>)) >>

\* mk_script: the line the intermediates loop puts in for the i-th line
\* that starts with ":"; command is l.split()[0][1:]
SnapshotLine(prefix, i, command) ==
    Dir(<< W("show"), W("--format=raw"), W("--output"),
           <<prefix, ".">> \o Fmt02(i) \o <<".">> \o command \o <<".asl">> >>)

RECURSIVE Interleave_SnapshotReplaces(_, _, _, _, _)
\* Interleave as it would be with lines_out.append(l) under an else: the
\* snapshot takes the place of the line
Interleave_SnapshotReplaces(lines_in, prefix, lo, hi, i) ==
    IF lo > hi THEN <<>>
    ELSE IF lo = hi
    THEN LET l == lines_in[lo]
         IN  IF l.colon THEN <<SnapshotLine(prefix, i, l.words[1])>>
                        ELSE <<l>>
    ELSE LET mid == (lo + hi) \div 2
             n == Cardinality({k \in lo..mid : lines_in[k].colon})
         IN  Interleave_SnapshotReplaces(lines_in, prefix, lo, mid, i)
               \o Interleave_SnapshotReplaces(lines_in, prefix, mid + 1, hi, i + n)

RECURSIVE Interleave(_, _, _, _, _)
\* mk_script: the loop over lines_in[lo..hi], entered with counter i.  The
\* loop is unfolded by halves, the second half entered with the counter the
\* first half leaves.
Interleave(lines_in, prefix, lo, hi, i) ==
    IF lo > hi THEN <<>>
    ELSE IF lo = hi
    THEN LET l == lines_in[lo]
         IN  IF l.colon THEN <<SnapshotLine(prefix, i, l.words[1]), l>>
                        ELSE <<l>>
    ELSE LET mid == (lo + hi) \div 2
             n == Cardinality({k \in lo..mid : lines_in[k].colon})
         IN  Interleave(lines_in, prefix, lo, mid, i)
               \o Interleave(lines_in, prefix, mid + 1, hi, i + n)

\* mk_script(args, output_directory): the script as its lines, or the
\* exception it raises: KeyError for a backend that backend_generator does
\* not hold, NameError for textwrap, which the file does not import
mk_script(a, output_directory) ==
    IF a.backend \notin DOMAIN backend_generator(Ffi(a))
    THEN [err |-> "KeyError", lines |-> <<>>]
    ELSE IF a.O0
    THEN [err |-> "none", lines |-> MinimalScript(a, output_directory)]
    ELSE IF a.transform_int_slices
    THEN [err |-> "NameError", lines |-> <<>>]
    ELSE LET full == base_script(Substitutions(a, output_directory))
         IN  [err |-> "none",
              lines |-> IF TruthyS(a.intermediates)
                        THEN Interleave(full, a.intermediates, 1, Len(full), 0)
                        ELSE full]

----------------------------------------------------------------------------
\* The file system, the subprocesses and the ways main ends

Dirs == {"wd", "old"} \cup TempNames

NoFiles == [n \in {} |-> <<>>]
OldContent == << Txt(Ws(<<"left", "by", "an", "earlier", "run">>)) >>

\* before the first session: only "old" exists; it holds files with the
\* names a session derives and one file of the user
InitFs ==
    [d \in Dirs |->
        IF d = "old"
        THEN [exists |-> TRUE,
              files |-> [n \in {"/asl2c.prj", "/config.json", "/notes.txt"}
                            |-> OldContent]]
        ELSE [exists |-> FALSE, files |-> NoFiles]]

\* WriteFile as it would be with open(path, "x") guarded by an existence
\* test: a file that is there is left as it is
WriteFile_KeepExisting(f, path, content) ==
    [f EXCEPT ![path[1]].files =
        [n \in DOMAIN @ \cup {path[2]} |->
            IF n = path[2] /\ n \notin DOMAIN @ THEN content ELSE @[n]]]

\* open(path, "w") and the prints into it: path is <<directory, "/name">>
WriteFile(f, path, content) ==
    [f EXCEPT ![path[1]].files =
        [n \in DOMAIN @ \cup {path[2]} |->
            IF n = path[2] THEN content ELSE @[n]]]

\* shutil.rmtree(d)
RmTree(f, d) == [f EXCEPT ![d] = [exists |-> FALSE, files |-> NoFiles]]

Event(kind, via, what, cmd, rc) ==
    [kind |-> kind, via |-> via, what |-> what, cmd |-> cmd, rc |-> rc]

\* run as it would be with sys.exit(1) for sys.exit(e.returncode)
run_exit1(cmd, rc, next) ==
    IF rc # 0
    THEN [pc |-> "exited", status |-> 1, err |-> "ExternalToolFailure",
          said |-> << Txt(<<W("Command")>> \o cmd
                          \o Ws(<<"returned", "non-zero", "exit", "status">>)
                          \o <<Str(rc)>>) >>]
    ELSE [pc |-> next, status |-> NotExited, err |-> "none", said |-> <<>>]

\* run(cmd), lines 223-229, for a subprocess that ends with rc: where main
\* goes on, or the exit status sys.exit(e.returncode) ends the process with
run(cmd, rc, next) ==
    IF rc # 0
    THEN [pc |-> "exited", status |-> rc, err |-> "ExternalToolFailure",
          said |-> << Txt(<<W("Command")>> \o cmd
                          \o Ws(<<"returned", "non-zero", "exit", "status">>)
                          \o <<Str(rc)>>) >>]
    ELSE [pc |-> next, status |-> NotExited, err |-> "none", said |-> <<>>]

\* a step of main that calls run(cmd): the subprocess is started, main
\* blocks until it ends with rc, and goes on or exits
RunStep(what, cmd, rc, next) ==
    LET r == run(cmd, rc, next)
    IN  /\ events' = Append(events, Event("proc", "run", what, cmd, rc))
        /\ pc' = r.pc
        /\ status' = r.status
        /\ err' = r.err
        /\ stdout' = stdout \o r.said

\* main ends: by exit(n), by an exception nobody catches (status 1), or by
\* returning (status 0)
Exit(n, why) == pc' = "exited" /\ status' = n /\ err' = why

\* asli = pathlib.Path(__file__).parent / "asli", or "asli.exe", lines 551-554
Asli(e) == e.here \o (IF e.asli_exists THEN <<"asli">> ELSE <<"asli.exe">>)

RECURSIVE PathStr(_)
\* str(path): the components joined with "/", as pieces of a word
PathStr(p) ==
    IF Len(p) = 0 THEN <<>>
    ELSE IF Len(p) = 1 THEN <<p[1]>>
    ELSE <<p[1], "/">> \o PathStr(Tail(p))

\* os.path.dirname
Dirname(p) == SubSeq(p, 1, Len(p) - 1)

\* "opam" in asli: some component of the path has "opam" in it
OpamNames == {".opam", "opam"}
HasOpam(p) == \E i \in 1..Len(p) : p[i] \in OpamNames

----------------------------------------------------------------------------
\* Compile and link flags

\* lines 235-239: the include flag is left out when the variable is not set
ac_types_include(e) ==
    IF TruthyS(e.AC_TYPES_DIR)
    THEN << <<"-I", e.AC_TYPES_DIR, "/include">> >> ELSE <<>>

sc_types_include(e) ==
    IF TruthyS(e.SC_TYPES_DIR)
    THEN << <<"-I", e.SC_TYPES_DIR, "/include">> >> ELSE <<>>

backend_c_flags(e) ==
    [ ac          |-> <<W("-DASL_AC")>> \o ac_types_include(e),
      c23         |-> <<W("-DASL_C23")>>,
      interpreter |-> <<>>,
      fallback    |-> <<W("-DASL_FALLBACK")>>,
      sc          |-> <<W("-DASL_SC")>> \o sc_types_include(e) ]

backend_ld_flags ==
    [ ac          |-> <<>>,
      c23         |-> <<>>,
      interpreter |-> <<>>,
      fallback    |-> <<>>,
      sc          |-> <<W("-lsystemc")>> ]

\* what an installed asli answers to --print-c-flags and --print-ld-flags
AsliPrintedCFlags == << W("-I/opam/lib/asli/runtime_include") >>
AsliPrintedLdFlags == << W("/opam/lib/asli/runtime/libASL.a") >>

\* the subprocess get_c_flags and get_ld_flags start when asli is installed
QueryCmd(e, flag) == << PathStr(Asli(e)), W(flag) >>

\* get_c_flags(asli, backend); rc is the exit status of the query, which
\* is made only when asli is installed
get_c_flags(e, backend, rc) ==
    LET asli == Asli(e)
        rootdir == Dirname(Dirname(asli))
        path == rootdir \o <<"lib", "asli", "runtime_include">>
    IN  IF HasOpam(asli) /\ rc # 0
        THEN [err |-> "CalledProcessError", flags |-> <<>>]
        ELSE IF backend \notin DOMAIN backend_c_flags(e)
        THEN [err |-> "KeyError", flags |-> <<>>]
        ELSE [err |-> "none",
              flags |-> (IF HasOpam(asli) THEN AsliPrintedCFlags
                         ELSE << <<"-I">> \o PathStr(path) >>)
                        \o backend_c_flags(e)[backend]]

\* get_ld_flags(asli, backend)
get_ld_flags(e, backend, rc) ==
    LET asli == Asli(e)
        rootdir == Dirname(Dirname(asli))
        path == rootdir \o <<"lib", "asli", "runtime", "libASL.a">>
    IN  IF HasOpam(asli) /\ rc # 0
        THEN [err |-> "CalledProcessError", flags |-> <<>>]
        ELSE IF backend = "sc" /\ ~TruthyS(e.SC_TYPES_DIR)
        THEN [err |-> "EnvironmentError", flags |-> <<>>]
        ELSE IF backend \notin DOMAIN backend_ld_flags
        THEN [err |-> "KeyError", flags |-> <<>>]
        ELSE [err |-> "none",
              flags |-> (IF HasOpam(asli) THEN AsliPrintedLdFlags
                         ELSE << PathStr(path) >>)
                        \o (IF backend = "sc"
                            THEN << <<"-L", e.SC_TYPES_DIR, "/lib">> >>
                            ELSE <<>>)
                        \o backend_ld_flags[backend]]

\* the exit statuses the flag query may end with: none is started, and the
\* status is of no account, when asli is not installed
QueryCodes(e) == IF HasOpam(Asli(e)) THEN ExitCodes ELSE {0}

QueryEvents(e, flag, rc) ==
    IF HasOpam(Asli(e))
    THEN << Event("proc", "check_output", "asli-query", QueryCmd(e, flag), rc) >>
    ELSE <<>>

----------------------------------------------------------------------------
\* Building support functions

mk_filenames(backend, working_directory, basename, use_cxx) ==
    LET suffix == IF use_cxx THEN "cpp" ELSE "c"
    IN  [ project_file |-> <<working_directory, "/asl2c.prj">>,
          config_file  |-> <<working_directory, "/config.json">>,
          c_files |-> << <<working_directory, "/", basename, "_exceptions.", suffix>>,
                         <<working_directory, "/", basename, "_vars.", suffix>>,
                         <<working_directory, "/", basename, "_funs.", suffix>> >>,
          exe_file |-> <<working_directory, "/", basename>> ]

RECURSIVE JoinQuoted(_)
\* ",".join([ f'"{x}"' for x in names ]), as pieces of a word
JoinQuoted(names) ==
    IF Len(names) = 0 THEN <<>>
    ELSE IF Len(names) = 1 THEN <<"\"", names[1], "\"">>
    ELSE <<"\"", names[1], "\"", ",">> \o JoinQuoted(Tail(names))

\* ConfigText as it would be with the entry point after the exports of
\* the user
ConfigText_MainLast(exports, imports) ==
    << Txt(<< W("{") >>),
       Txt(<< W("\"exports\":"),
              <<"[">> \o JoinQuoted(Tail(exports) \o <<Head(exports)>>) \o <<"],">> >>),
       Txt(<< W("\"imports\":"), <<"[">> \o JoinQuoted(imports) \o <<"]">> >>),
       Txt(<< W("}") >>) >>

\* generate_config_file: the four lines it prints into the file
ConfigText(exports, imports) ==
    << Txt(<< W("{") >>),
       Txt(<< W("\"exports\":"), <<"[">> \o JoinQuoted(exports) \o <<"],">> >>),
       Txt(<< W("\"imports\":"), <<"[">> \o JoinQuoted(imports) \o <<"]">> >>),
       Txt(<< W("}") >>) >>

\* the words of the checks that run_asli and the interpreter branch share
CheckWords(a) ==
    << W("--check-call-markers"), W("--check-exception-markers"),
       IF a.constraint_checks THEN W("--check-constraints")
                              ELSE W("--no-check-constraints"),
       IF a.runtime_checks THEN W("--runtime-checks")
                           ELSE W("--no-runtime-checks") >>
      \o (IF a.Obounded THEN <<W("--exec=:xform_bounded")>> ELSE <<>>)

\* run_asli: asli_cmd
AsliCmd(e, a, asl_files, project_file, configurations) ==
    << PathStr(Asli(e)), W("--batchmode"), W("--nobanner") >>
      \o CheckWords(a)
      \o << <<"--project=">> \o project_file >>
      \o [i \in 1..Len(configurations) |->
             <<"--configuration=">> \o configurations[i]]
      \o Ws(asl_files)

\* main, lines 563-576: asli_cmd of the interpreter branch
InterpreterCmd(e, a) ==
    << PathStr(Asli(e)), W("--batchmode"), W("--nobanner") >>
      \o CheckWords(a)
      \o << W("--exec=let result = main();"), W("--exec=:quit") >>
      \o Ws(a.asl_files)

\* main, lines 582-590: asli_cmd of the mlir branch
MlirAsliCmd(e, a, config_file, mlir_file) ==
    << PathStr(Asli(e)), W("--batchmode"),
       <<"--configuration=">> \o config_file,
       W("--exec=:filter_reachable_from exports"),
       <<"--exec=:generate_mlir --output-file=">> \o mlir_file,
       W("--exec=:quit") >>
      \o Ws(a.asl_files)

----------------------------------------------------------------------------
\* main

ErrorLine(text) == Txt(<< W(text) >>)

\* validate as it would be without the check of lines 546-548
validate_NoConstRefCheck(a) ==
    LET b == [a EXCEPT !.build = a.build \/ a.run \/ a.show_final_asl]
        c == [b EXCEPT !.generate_cxx = b.generate_cxx \/ b.backend \in {"ac", "sc"}]
    IN  IF TruthyL(b.asl_files) /\ ~b.build
        THEN [ok |-> FALSE, args |-> b,
              msg |-> "Error: only provide input files if building or running"]
        ELSE IF b.num_c_files # 1 /\ b.build
        THEN [ok |-> FALSE, args |-> b,
              msg |-> "Error: don't specify --num-c-files if building or running"]
        ELSE IF (TruthyL(b.imports) \/ TruthyL(b.exports) \/ TruthyL(b.extra_c)) /\ ~b.build
        THEN [ok |-> FALSE, args |-> b,
              msg |-> "Error: don't specify --imports or --exports or --extra-c if not building or not running"]
        ELSE IF TruthyL(b.configuration) /\ ~b.build
        THEN [ok |-> FALSE, args |-> b,
              msg |-> "Error: don't specify --configuration unless building or running"]
        ELSE IF b.backend = "interpreter" /\ ~b.run
        THEN [ok |-> FALSE, args |-> b,
              msg |-> "Error: must specify --run with asli backend"]
        ELSE [ok |-> TRUE, args |-> c, msg |-> ""]

\* main, lines 529-548: the checks of the options, in the order of the
\* code; args as the checks leave it, and the message of the first that fails
validate(a) ==
    LET b == [a EXCEPT !.build = a.build \/ a.run \/ a.show_final_asl]
        c == [b EXCEPT !.generate_cxx = b.generate_cxx \/ b.backend \in {"ac", "sc"}]
    IN  IF TruthyL(b.asl_files) /\ ~b.build
        THEN [ok |-> FALSE, args |-> b,
              msg |-> "Error: only provide input files if building or running"]
        ELSE IF b.num_c_files # 1 /\ b.build
        THEN [ok |-> FALSE, args |-> b,
              msg |-> "Error: don't specify --num-c-files if building or running"]
        ELSE IF (TruthyL(b.imports) \/ TruthyL(b.exports) \/ TruthyL(b.extra_c)) /\ ~b.build
        THEN [ok |-> FALSE, args |-> b,
              msg |-> "Error: don't specify --imports or --exports or --extra-c if not building or not running"]
        ELSE IF TruthyL(b.configuration) /\ ~b.build
        THEN [ok |-> FALSE, args |-> b,
              msg |-> "Error: don't specify --configuration unless building or running"]
        ELSE IF b.backend = "interpreter" /\ ~b.run
        THEN [ok |-> FALSE, args |-> b,
              msg |-> "Error: must specify --run with asli backend"]
        ELSE IF TruthyN(c.const_ref) /\ ~c.generate_cxx
        THEN [ok |-> FALSE, args |-> c,
              msg |-> "Error: must specify --generate-cxx with --const-ref"]
        ELSE [ok |-> TRUE, args |-> c, msg |-> ""]

\* main, lines 526-548
Validate ==
    /\ pc = "start"
    /\ LET v == validate(args)
       IN  /\ args' = v.args
           /\ IF v.ok
              THEN /\ pc' = "dispatch"
                   /\ UNCHANGED <<status, err, stdout>>
              ELSE /\ Exit(1, "InvalidConfiguration")
                   /\ stdout' = Append(stdout, ErrorLine(v.msg))
    /\ UNCHANGED <<cmdline, env, fs, workdir, script, c_flags, ld_flags, cc,
                   todo_c, events, session, gens>>

\* main, lines 556-557
PrintCFlags ==
    /\ pc = "dispatch"
    /\ args.print_c_flags
    /\ \E rc \in QueryCodes(env) :
         LET r == get_c_flags(env, args.backend, rc)
         IN  /\ events' = events \o QueryEvents(env, "--print-c-flags", rc)
             /\ c_flags' = r.flags
             /\ IF r.err = "none"
                THEN /\ stdout' = Append(stdout, Txt(r.flags))
                     /\ Exit(0, "none")
                ELSE /\ stdout' = stdout
                     /\ Exit(1, r.err)
    /\ UNCHANGED <<cmdline, args, env, fs, workdir, script, ld_flags, cc,
                   todo_c, session, gens>>

\* main, lines 558-559
PrintLdFlags ==
    /\ pc = "dispatch"
    /\ ~args.print_c_flags
    /\ args.print_ld_flags
    /\ \E rc \in QueryCodes(env) :
         LET r == get_ld_flags(env, args.backend, rc)
         IN  /\ events' = events \o QueryEvents(env, "--print-ld-flags", rc)
             /\ ld_flags' = r.flags
             /\ IF r.err = "none"
                THEN /\ stdout' = Append(stdout, Txt(r.flags))
                     /\ Exit(0, "none")
                ELSE /\ stdout' = stdout
                     /\ Exit(1, r.err)
    /\ UNCHANGED <<cmdline, args, env, fs, workdir, script, c_flags, cc,
                   todo_c, session, gens>>

\* main, lines 560-561: print(mk_script(args, args.output_dir))
PrintScript ==
    /\ pc = "dispatch"
    /\ ~args.print_c_flags
    /\ ~args.print_ld_flags
    /\ ~args.build
    /\ LET r == mk_script(args, args.output_dir)
       IN  IF r.err = "none"
           THEN /\ script' = r.lines
                /\ stdout' = stdout \o r.lines
                /\ gens' = gens \cup {r.lines}
                /\ Exit(0, "none")
           ELSE /\ UNCHANGED <<script, stdout, gens>>
                /\ Exit(1, r.err)
    /\ UNCHANGED <<cmdline, args, env, fs, workdir, c_flags, ld_flags,
                   cc, todo_c, events, session>>

\* main, lines 562-577: the interpreter runs the ASL files itself
RunInterpreter ==
    /\ pc = "dispatch"
    /\ ~args.print_c_flags
    /\ ~args.print_ld_flags
    /\ args.build
    /\ args.run /\ args.backend = "interpreter"
    /\ \E rc \in ExitCodes :
         LET r == run(InterpreterCmd(env, args), rc, "return")
         IN  /\ events' = Append(events, Event("proc", "run", "asli",
                                               InterpreterCmd(env, args), rc))
             /\ stdout' = stdout \o r.said
             /\ IF r.pc = "return" THEN Exit(0, "none")
                                   ELSE Exit(r.status, r.err)
    /\ UNCHANGED <<cmdline, args, env, fs, workdir, script, c_flags, ld_flags,
                   cc, todo_c, session, gens>>

\* make_working_dir as it would be if it made a temporary directory also
\* when a name is given
make_working_dir_AlwaysTemp(f, name) ==
    { n \in { TempName(i) : i \in 1..session } : ~f[n].exists }

\* make_working_dir(name, prefix): the directories it may return; mkdtemp
\* returns a name that no directory has, which may be the name of a
\* directory since removed.  The names being interchangeable, the k-th
\* session draws from the first k of them: every pattern of equal and
\* different names over the sessions is still drawn.
make_working_dir(f, name) ==
    IF TruthyS(name) THEN {name}
    ELSE { n \in { TempName(i) : i \in 1..session } : ~f[n].exists }

\* whether main takes the mlir branch (line 578) or the last one (line 598)
InMlirBranch == args.run /\ args.backend = "mlir"

\* InBuildBranch as it would be with "if" for the "elif" of line 560: a
\* build is made also when the flags were printed
InBuildBranch_AfterPrint ==
    /\ args.build
    /\ ~(args.run /\ args.backend = "interpreter")

InBuildBranch ==
    /\ ~args.print_c_flags
    /\ ~args.print_ld_flags
    /\ args.build
    /\ ~(args.run /\ args.backend = "interpreter")

\* main, lines 579 and 600: working_directory = make_working_dir(...)
MakeWorkingDir ==
    /\ pc = "dispatch"
    /\ InBuildBranch
    /\ \E d \in make_working_dir(fs, args.working_dir) :
         /\ workdir' = d
         /\ fs' = [fs EXCEPT ![d].exists = TRUE]
         /\ events' = Append(events, Event("mkdir", "os", d, <<>>, 0))
    /\ pc' = IF InMlirBranch THEN "mlir_config" ELSE "mk_script"
    /\ UNCHANGED <<cmdline, args, env, status, err, script, c_flags, ld_flags,
                   cc, todo_c, stdout, session, gens>>


Filenames == mk_filenames(args.backend, workdir, args.basename, args.generate_cxx)

\* main, line 602: script = mk_script(args, working_directory)
MkScript ==
    /\ pc = "mk_script"
    /\ LET r == mk_script(args, workdir)
       IN  IF r.err = "none"
           THEN /\ script' = r.lines
                /\ gens' = gens \cup {r.lines}
                /\ pc' = "generate_project"
                /\ UNCHANGED <<status, err>>
           ELSE /\ UNCHANGED <<script, gens>>
                /\ Exit(1, r.err)
    /\ UNCHANGED <<cmdline, args, env, fs, workdir, c_flags, ld_flags, cc,
                   todo_c, stdout, events, session>>

\* GenerateProject as it would be if the script were not written
GenerateProject_NotWritten ==
    /\ pc = "generate_project"
    /\ pc' = "generate_config"
    /\ UNCHANGED <<cmdline, args, env, status, err, fs, workdir, script, c_flags,
                   ld_flags, cc, todo_c, stdout, events, session, gens>>

\* generate_project(project_file, script), line 604
GenerateProject ==
    /\ pc = "generate_project"
    /\ fs' = WriteFile(fs, Filenames.project_file, script)
    /\ events' = Append(events, Event("write", "open", "/asl2c.prj", <<>>, 0))
    /\ pc' = "generate_config"
    /\ UNCHANGED <<cmdline, args, env, status, err, workdir, script, c_flags,
                   ld_flags, cc, todo_c, stdout, session, gens>>

\* generate_config_file(config_file, ["main"] + args.exports, args.imports),
\* lines 591 and 605
GenerateConfigFile ==
    /\ pc \in {"generate_config", "mlir_config"}
    /\ fs' = WriteFile(fs, <<workdir, "/config.json">>,
                       ConfigText(<<"main">> \o args.exports, args.imports))
    /\ events' = Append(events, Event("write", "open", "/config.json", <<>>, 0))
    /\ pc' = IF pc = "mlir_config" THEN "mlir_asli" ELSE "run_asli"
    /\ UNCHANGED <<cmdline, args, env, status, err, workdir, script, c_flags,
                   ld_flags, cc, todo_c, stdout, session, gens>>

\* run_asli(asli, args, args.asl_files, project_file,
\*          [config_filename] + args.configuration), line 606, and the
\* branch of lines 607-613 that follows it
RunAsli ==
    /\ pc = "run_asli"
    /\ \E rc \in ExitCodes :
         RunStep("asli",
                 AsliCmd(env, args, args.asl_files, Filenames.project_file,
                         <<Filenames.config_file>> \o Ws(args.configuration)),
                 rc,
                 IF args.show_final_asl THEN "cleanup"
                 ELSE IF args.run THEN "get_c_flags" ELSE "cleanup")
    /\ UNCHANGED <<cmdline, args, env, fs, workdir, script, c_flags, ld_flags,
                   cc, todo_c, session, gens>>

\* main, lines 592-593
MlirRunAsli ==
    /\ pc = "mlir_asli"
    /\ \E rc \in ExitCodes :
         LET cmd == MlirAsliCmd(env, args, <<workdir, "/config.json">>,
                                <<workdir, "/asl.mlir">>)
             r == run(cmd, rc, "mlir_opt")
         IN  /\ events' = Append(events, Event("proc", "run", "asli", cmd, rc))
             /\ pc' = r.pc
             /\ status' = r.status
             /\ err' = r.err
             /\ stdout' = stdout \o r.said
                   \o (IF rc = 0
                       THEN << Txt(<< W("#"), W("Generated"), <<workdir, "/asl.mlir">> >>) >>
                       ELSE <<>>)
    /\ UNCHANGED <<cmdline, args, env, fs, workdir, script, c_flags, ld_flags,
                   cc, todo_c, session, gens>>

\* main, lines 594-596
MlirRunOpt ==
    /\ pc = "mlir_opt"
    /\ \E rc \in ExitCodes :
         LET cmd == << W("asl-opt"), W("--target=exec"), <<workdir, "/asl.mlir">> >>
             r == run(cmd, rc, "cleanup")
         IN  /\ events' = Append(events, Event("proc", "run", "asl-opt", cmd, rc))
             /\ pc' = r.pc
             /\ status' = r.status
             /\ err' = r.err
             /\ stdout' = stdout \o r.said
                   \o (IF rc = 0
                       THEN << Txt(<< W("#"), W("Ran"), <<workdir, "/asl.mlir">> >>) >>
                       ELSE <<>>)
    /\ UNCHANGED <<cmdline, args, env, fs, workdir, script, c_flags, ld_flags,
                   cc, todo_c, session, gens>>

\* main, line 610
GetCFlags ==
    /\ pc = "get_c_flags"
    /\ \E rc \in QueryCodes(env) :
         LET r == get_c_flags(env, args.backend, rc)
         IN  /\ events' = events \o QueryEvents(env, "--print-c-flags", rc)
             /\ c_flags' = r.flags
             /\ IF r.err = "none"
                THEN pc' = "get_ld_flags" /\ UNCHANGED <<status, err>>
                ELSE Exit(1, r.err)
    /\ UNCHANGED <<cmdline, args, env, fs, workdir, script, ld_flags, cc,
                   todo_c, stdout, session, gens>>

\* main, line 611
GetLdFlags ==
    /\ pc = "get_ld_flags"
    /\ \E rc \in QueryCodes(env) :
         LET r == get_ld_flags(env, args.backend, rc)
         IN  /\ events' = events \o QueryEvents(env, "--print-ld-flags", rc)
             /\ ld_flags' = r.flags
             /\ IF r.err = "none"
                THEN pc' = "select_cc" /\ UNCHANGED <<status, err>>
                ELSE Exit(1, r.err)
    /\ UNCHANGED <<cmdline, args, env, fs, workdir, script, c_flags, cc,
                   todo_c, stdout, session, gens>>

\* compile_and_link, lines 430-437: the compilers asked for, in this order
Clangs == <<"clang-18", "clang-17", "clang-16", "clang">>

RECURSIVE WhichEvents(_, _)
\* the `which` subprocesses started from the k-th compiler on: one for
\* each compiler up to the first that is installed
WhichEvents(e, k) ==
    IF k > Len(Clangs) THEN <<>>
    ELSE IF Clangs[k] \in e.installed
    THEN << Event("proc", "subprocess.run", "which", Ws(<<"which", Clangs[k]>>), 0) >>
    ELSE << Event("proc", "subprocess.run", "which", Ws(<<"which", Clangs[k]>>), 1) >>
           \o WhichEvents(e, k + 1)

\* compile_and_link, lines 426-441: cc
ChooseCC(e, use_cxx) ==
    IF TruthyS(e.CC) THEN <<W(e.CC)>>
    ELSE IF \E k \in 1..Len(Clangs) : Clangs[k] \in e.installed
    THEN LET k == CHOOSE i \in 1..Len(Clangs) :
                     /\ Clangs[i] \in e.installed
                     /\ \A j \in 1..(i - 1) : Clangs[j] \notin e.installed
         IN  <<W(Clangs[k])>>
    ELSE IF use_cxx THEN <<W("g++")>> ELSE <<W("gcc")>>

\* compile_and_link, lines 426-451
SelectCC ==
    /\ pc = "select_cc"
    /\ cc' = ChooseCC(env, args.generate_cxx)
    /\ events' = events \o (IF TruthyS(env.CC) THEN <<>> ELSE WhichEvents(env, 1))
    /\ IF args.generate_cxx
       THEN /\ ld_flags' = Append(ld_flags, W("-lstdc++"))
            /\ c_flags' = Append(c_flags, W("-std=c++17"))
       ELSE /\ c_flags' = Append(c_flags, W("-std=c2x"))
            /\ UNCHANGED ld_flags
    /\ todo_c' = args.extra_c
    /\ pc' = "compile_extra"
    /\ UNCHANGED <<cmdline, args, env, status, err, fs, workdir, script,
                   stdout, session, gens>>

\* compile_and_link, lines 456-458: the object file of an extra C file
ObjFile(working_directory, c_file) == <<working_directory, "/", c_file[2], ".o">>

\* the objects of the extra C files compiled so far
ExtraObjs ==
    [i \in 1..(Len(args.extra_c) - Len(todo_c)) |-> ObjFile(workdir, args.extra_c[i])]

\* compile_and_link, lines 455-466: one turn of the loop
CompileExtra ==
    /\ pc = "compile_extra"
    /\ todo_c # <<>>
    /\ \E rc \in ExitCodes :
         RunStep("cc -c",
                 cc \o << <<"-I", workdir>>, W("-c"), W("-o"),
                          ObjFile(workdir, Head(todo_c)), Head(todo_c) >>,
                 rc, "compile_extra")
    /\ todo_c' = Tail(todo_c)
    /\ UNCHANGED <<cmdline, args, env, fs, workdir, script, c_flags, ld_flags,
                   cc, session, gens>>

\* compile_and_link, lines 468-473
Link ==
    /\ pc = "compile_extra"
    /\ todo_c = <<>>
    /\ \E rc \in ExitCodes :
         RunStep("cc -o",
                 cc \o << W("-Wno-parentheses-equality"), <<"-I", workdir>>,
                          W("-o"), Filenames.exe_file >>
                    \o c_flags \o Filenames.c_files \o ExtraObjs \o ld_flags,
                 rc, "run_exe")
    /\ UNCHANGED <<cmdline, args, env, fs, workdir, script, c_flags, ld_flags,
                   cc, todo_c, session, gens>>

\* main, line 613: run([exe_file])
RunExe ==
    /\ pc = "run_exe"
    /\ \E rc \in ExitCodes :
         RunStep("exe", << Filenames.exe_file >>, rc, "cleanup")
    /\ UNCHANGED <<cmdline, args, env, fs, workdir, script, c_flags, ld_flags,
                   cc, todo_c, session, gens>>

\* main, lines 597 and 614, and main's return
Cleanup ==
    /\ pc = "cleanup"
    /\ IF ~args.save_temps
       THEN /\ fs' = RmTree(fs, workdir)
            /\ events' = Append(events, Event("rmtree", "shutil", workdir, <<>>, 0))
       ELSE UNCHANGED <<fs, events>>
    /\ Exit(0, "none")
    /\ UNCHANGED <<cmdline, args, env, workdir, script, c_flags, ld_flags, cc,
                   todo_c, stdout, session, gens>>

\* the user runs the same command line again, in the file system the
\* earlier run has left
Rerun ==
    /\ pc = "exited"
    /\ session < MaxSessions
    /\ session' = session + 1
    /\ args' = cmdline
    /\ pc' = "start"
    /\ status' = NotExited
    /\ err' = "none"
    /\ workdir' = NoDir
    /\ script' = <<>>
    /\ c_flags' = <<>>
    /\ ld_flags' = <<>>
    /\ cc' = <<>>
    /\ todo_c' = <<>>
    /\ stdout' = <<>>
    /\ events' = <<>>
    /\ UNCHANGED <<cmdline, env, fs, gens>>

Init ==
    /\ \E s \in Setups(MaxOptions) :
         /\ cmdline = [f \in ArgFields |-> s[f]]
         /\ env = [f \in EnvFields |-> s[f]]
    /\ args = cmdline
    /\ pc = "start"
    /\ status = NotExited
    /\ err = "none"
    /\ fs = InitFs
    /\ workdir = NoDir
    /\ script = <<>>
    /\ c_flags = <<>>
    /\ ld_flags = <<>>
    /\ cc = <<>>
    /\ todo_c = <<>>
    /\ stdout = <<>>
    /\ events = <<>>
    /\ session = 1
    /\ gens = {}

Next ==
    \/ Validate
    \/ PrintCFlags
    \/ PrintLdFlags
    \/ PrintScript
    \/ RunInterpreter
    \/ MakeWorkingDir
    \/ MkScript
    \/ GenerateProject
    \/ GenerateConfigFile
    \/ RunAsli
    \/ MlirRunAsli
    \/ MlirRunOpt
    \/ GetCFlags
    \/ GetLdFlags
    \/ SelectCC
    \/ CompileExtra
    \/ Link
    \/ RunExe
    \/ Cleanup
    \/ Rerun

Spec == Init /\ [][Next]_vars

----------------------------------------------------------------------------
\* Reading a script

\* the lines of a script that start with ":", in order
Directives(lines) == SelectSeq(lines, LAMBDA l : l.colon)

\* a directive the intermediates loop has put in
IsSnapshot(l) ==
    /\ l.colon
    /\ Len(l.words) = 4
    /\ l.words[1] = W("show")
    /\ l.words[3] = W("--output")

\* the stage directives of a script: its directives without the snapshots
Stages(lines) == SelectSeq(lines, LAMBDA l : l.colon /\ ~IsSnapshot(l))

StageName(l) == l.words[1][1]

XformNames ==
    { "xform_named_type", "xform_desugar", "xform_bittuples", "xform_lower",
      "xform_int_bitslices", "xform_getset", "xform_valid", "xform_constprop",
      "xform_monomorphize", "xform_tuples", "xform_hoist_lets",
      "xform_bitslices", "xform_case", "xform_wrap", "xform_bounded" }

IsXform(l) == StageName(l) \in XformNames
IsCodegen(l) == StageName(l) \in {"generate_c", "generate_mlir"}
IsFilter(l) == StageName(l) \in {"filter_reachable_from", "filter_unlisted_functions"}

\* mk_script has just returned `script`: to main's last branch (line 602)
\* or to the print of line 561.  gens grows in these states only, by the
\* script they hold.
JustGenerated ==
    \/ pc = "generate_project"
    \/ pc = "exited" /\ workdir = NoDir /\ script # <<>>

\* the output directory mk_script was called with
OutputDirectory == IF workdir = NoDir THEN args.output_dir ELSE workdir

\* a session that has acquired a working directory has ended
SessionEnded == pc = "exited" /\ workdir # NoDir

\* the subprocesses of this session, and those started by run()
IsProc(e) == e.kind = "proc"
ViaRun(e) == e.kind = "proc" /\ e.via = "run"

----------------------------------------------------------------------------
\* Workspace cleanup and failure propagation

\* C1: when a session that acquired a working directory has ended, by
\* completing or by a subprocess that exited non-zero, the directory is
\* deleted unless --save-temps was given.
C1_WorkspaceDeletedOnEveryExit ==
    (SessionEnded /\ ~args.save_temps /\ err \in {"none", "ExternalToolFailure"})
        => ~fs[workdir].exists

\* C2 as claimed: a subprocess started by run() that exits with N # 0 ends
\* the session with status N, and nothing is started or written after it;
\* a session whose subprocesses started by run() all exit with 0 ends with
\* status 0.
C2_StatusIsSubprocessStatus ==
    /\ \A i \in 1..Len(events) :
          (ViaRun(events[i]) /\ events[i].rc # 0)
              => /\ pc = "exited"
                 /\ status = events[i].rc
                 /\ i = Len(events)
    /\ ( /\ pc = "exited"
         /\ \E i \in 1..Len(events) : ViaRun(events[i])
         /\ \A i \in 1..Len(events) : ViaRun(events[i]) => events[i].rc = 0 )
        => status = 0

\* C2 as amended: as claimed for the subprocess that fails; a session whose
\* subprocesses started by run() all exit with 0 ends with status 0, or with
\* status 1 when resolving the native flags fails after the external
\* compiler has succeeded: the link flags of backend sc while SC_TYPES_DIR
\* is not set, or the flag query of an installed asli exiting non-zero.
C2_StatusIsSubprocessStatusOrFlagsFailure ==
    /\ \A i \in 1..Len(events) :
          (ViaRun(events[i]) /\ events[i].rc # 0)
              => /\ pc = "exited"
                 /\ status = events[i].rc
                 /\ i = Len(events)
    /\ ( /\ pc = "exited"
         /\ \E i \in 1..Len(events) : ViaRun(events[i])
         /\ \A i \in 1..Len(events) : ViaRun(events[i]) => events[i].rc = 0 )
        => \/ status = 0 /\ err = "none"
           \/ /\ status = 1
              /\ err = "EnvironmentError"
              /\ args.backend = "sc"
              /\ ~TruthyS(env.SC_TYPES_DIR)
           \/ /\ status = 1
              /\ err = "CalledProcessError"
              /\ HasOpam(Asli(env))
              /\ events[Len(events)].what = "asli-query"
              /\ events[Len(events)].rc # 0

\* C2, witness: the produced executable has exited with status 2, after the
\* external compiler and the native compiler exited with 0, and the session
\* has ended with status 2.
C2_Witness ==
    /\ pc = "exited"
    /\ status = 2
    /\ Len(events) > 3
    /\ events[Len(events)].what = "exe"
    /\ events[Len(events)].rc = 2

----------------------------------------------------------------------------
\* The order of the stages

\* in g, a reachability filter comes before every xform_ stage
ReachabilityFirst(g) ==
    \A j \in 1..Len(g) :
        (g[j].colon /\ IsXform(g[j]))
            => \E i \in 1..(j - 1) :
                  g[i].colon /\ StageName(g[i]) = "filter_reachable_from"

\* in g, a monomorphization check comes after every xform_monomorphize and
\* before every code generation
MonomorphizationChecked(g) ==
    \E k \in 1..Len(g) :
        /\ g[k].colon
        /\ StageName(g[k]) = "check_monomorphization"
        /\ \A m \in 1..Len(g) :
              (g[m].colon /\ StageName(g[m]) = "xform_monomorphize") => m < k
        /\ \A c \in 1..Len(g) : (g[c].colon /\ IsCodegen(g[c])) => k < c

HasStage(g, name) == \E k \in 1..Len(g) : g[k].colon /\ StageName(g[k]) = name

\* C3 as claimed: in every generated script, of the full and of the minimal
\* mode, a reachability filter precedes every xform_ stage, and a
\* check_monomorphization stage follows the last xform_monomorphize and
\* precedes the code generation.
C3_OrderInEveryMode ==
    JustGenerated => ReachabilityFirst(script) /\ MonomorphizationChecked(script)

\* C3 as amended: in every generated script a reachability filter precedes
\* every xform_ stage; the script of the full mode has a
\* check_monomorphization stage after the last xform_monomorphize and
\* before the code generation; the script of the minimal mode has neither
\* a check_monomorphization nor an xform_monomorphize stage.
C3_OrderFullModeOnly ==
    JustGenerated =>
        /\ ReachabilityFirst(script)
        /\ IF cmdline.O0
           THEN /\ ~HasStage(script, "check_monomorphization")
                /\ ~HasStage(script, "xform_monomorphize")
           ELSE /\ MonomorphizationChecked(script)
                /\ HasStage(script, "xform_monomorphize")
                /\ \E c \in 1..Len(script) : script[c].colon /\ IsCodegen(script[c])

\* C3, witness: a script of the full mode with the bounded-integer stage
\* has been generated.
C3_Witness ==
    /\ JustGenerated
    /\ ~cmdline.O0
    /\ cmdline.Obounded
    /\ HasStage(script, "xform_bounded")

----------------------------------------------------------------------------
\* Determinism

RedactWord(w) == [i \in 1..Len(w) |-> IF w[i] \in TempNames THEN "<tmp>" ELSE w[i]]
RedactLine(l) == [l EXCEPT !.words = [i \in 1..Len(l.words) |-> RedactWord(l.words[i])]]
\* a script with the name of a temporary directory blotted out
Redact(g) == [i \in 1..Len(g) |-> RedactLine(g[i])]

\* C4 as claimed: all the scripts generated from the same command line are
\* the same text, also when the session makes its own temporary directory.
C4_SameCommandLineSameScript == JustGenerated => gens = {script}

\* C4 as amended: all the scripts generated from the same command line for
\* the same output directory (a script that is printed, or a session with
\* --working-dir) are the same text; the scripts of sessions that make
\* their own temporary directory are the same but for the name of that
\* directory, which the code generation stage carries.
C4_SameScriptButForTempDir ==
    JustGenerated =>
        /\ \A g \in gens : Redact(g) = Redact(script)
        /\ (TruthyS(cmdline.working_dir) \/ ~args.build) => gens = {script}

\* C4, witness: the second session of a command line with --working-dir has
\* generated its script, and so had the first.
C4_Witness ==
    /\ session = 2
    /\ pc = "generate_project"
    /\ cmdline.working_dir = "wd"
    /\ script \in gens
    /\ fs["wd"].exists

----------------------------------------------------------------------------
\* The minimal mode against the full mode

\* the scripts of the two modes for the options of the command line
MinimalFor(d) == mk_script([args EXCEPT !.O0 = TRUE], d)
FullFor(d) == mk_script([args EXCEPT !.O0 = FALSE], d)

\* the filter stages a script begins with
LeadingFilters(g) ==
    LET st == Stages(g)
        n == CHOOSE k \in 0..Len(st) :
                 /\ \A j \in 1..k : IsFilter(st[j])
                 /\ k < Len(st) => ~IsFilter(st[k + 1])
    IN  SubSeq(st, 1, n)

ImportExportFilters ==
    << Dir(Ws(<<"filter_unlisted_functions", "imports">>)),
       Dir(Ws(<<"filter_reachable_from", "exports">>)) >>

----------------------------------------------------------------------------
\* Printing the flags

PrintRequest == cmdline.print_c_flags \/ cmdline.print_ld_flags
Registered == cmdline.backend \in DOMAIN backend_c_flags(env)

\* C6 as claimed: a request to print the flags of a registered backend makes
\* no working directory and starts no subprocess, wherever asli is.
C6_PrintFlagsStartsNothing ==
    (PrintRequest /\ Registered)
        => /\ workdir = NoDir
           /\ fs = InitFs
           /\ events = <<>>

\* C6 as amended: a request to print the flags of a registered backend makes
\* no working directory; it starts no subprocess when asli is not installed
\* (no "opam" in its path), and when asli is installed it starts one
\* subprocess and no more: asli itself, asked for the flags.
C6_PrintFlagsStartsTheQueryOnly ==
    (PrintRequest /\ Registered)
        => /\ workdir = NoDir
           /\ fs = InitFs
           /\ \A i \in 1..Len(events) :
                 /\ events[i].what = "asli-query"
                 /\ events[i].via = "check_output"
                 /\ events[i].cmd[1] = PathStr(Asli(env))
           /\ Len(events) <= (IF HasOpam(Asli(env)) THEN 1 ELSE 0)
           /\ (pc = "exited" /\ validate(cmdline).ok /\ HasOpam(Asli(env)))
                 => Len(events) = 1

\* C6, witness: the link flags of an installed asli have been printed.
C6_Witness ==
    /\ pc = "exited"
    /\ status = 0
    /\ cmdline.print_ld_flags
    /\ HasOpam(Asli(env))
    /\ Len(events) = 1
    /\ stdout = << Txt(ld_flags) >>

----------------------------------------------------------------------------
\* The snapshots of --intermediates

\* the number of stage directives among the first p - 1 directives of D
StagesBefore(D, p) == Cardinality({ q \in 1..(p - 1) : ~IsSnapshot(D[q]) })

\* the file a snapshot for the k-th stage, of the name in `command`, writes
SnapshotFile(prefix, k, command) ==
    <<prefix, ".">> \o Fmt02(k) \o <<".">> \o command \o <<".asl">>

\* C7: with --intermediates, the directive right after the k-th
\* stage directive S (k = 0, 1, 2, ...) is a snapshot into the file of
\* number k and of the name of S.
C7_SnapshotAfterEveryStage ==
    (JustGenerated /\ TruthyS(cmdline.intermediates)) =>
            LET D == Directives(script)
            IN  \A p \in 1..Len(D) :
                    ~IsSnapshot(D[p]) =>
                        /\ p < Len(D)
                        /\ IsSnapshot(D[p + 1])
                        /\ D[p + 1].words[4] =
                             SnapshotFile(cmdline.intermediates,
                                          StagesBefore(D, p), D[p].words[1])

\* C8: with --intermediates, the script without the snapshots has the stage
\* directives, in order, of the script generated without --intermediates
\* from otherwise the same options.
C8_SnapshotsOnlyAdded ==
    (JustGenerated /\ TruthyS(cmdline.intermediates)) =>
        LET without == mk_script([args EXCEPT !.intermediates = ""], OutputDirectory)
        IN  /\ without.err = "none"
            /\ Stages(script) = Directives(without.lines)

\* C8, witness: a script of the full mode with snapshots has been printed.
C8_Witness ==
    /\ JustGenerated
    /\ TruthyS(cmdline.intermediates)
    /\ ~cmdline.O0
    /\ \E i \in 1..Len(script) : IsSnapshot(script[i])

----------------------------------------------------------------------------
\* Failures of the configuration and of the environment

CxxEnabled == cmdline.generate_cxx \/ cmdline.backend \in {"ac", "sc"}

\* C9: a command line with --const-ref and without C++ generation is
\* rejected with no script generated, no working directory made and no
\* subprocess started; with C++ generation the threshold is accepted: the
\* command line is rejected only if it is rejected without --const-ref too.
C9_ConstRefNeedsCxx ==
    (TruthyN(cmdline.const_ref) /\ pc # "start") =>
        IF ~CxxEnabled
        THEN /\ pc = "exited"
             /\ status = 1
             /\ err = "InvalidConfiguration"
             /\ gens = {}
             /\ Len(stdout) = 1
             /\ workdir = NoDir
             /\ fs = InitFs
             /\ events = <<>>
        ELSE validate([cmdline EXCEPT !.const_ref = 0]).ok
                => /\ err # "InvalidConfiguration"
                   /\ args.const_ref = cmdline.const_ref

\* C9, witness: a command line with --const-ref alone has been rejected.
C9_Witness ==
    /\ pc = "exited"
    /\ TruthyN(cmdline.const_ref)
    /\ ~CxxEnabled
    /\ stdout = << ErrorLine("Error: must specify --generate-cxx with --const-ref") >>

\* C10: while the variable that backend ac (AC_TYPES_DIR) or sc
\* (SC_TYPES_DIR) needs is not set, resolving the flags that depend on it
\* (the compile flags of ac and of sc, which carry -I<dir>/include, and the
\* link flags of sc, which carry -L<dir>/lib) returns no list of flags.
C10_MissingEnvironmentFails ==
    ( \/ cmdline.backend = "ac" /\ ~TruthyS(env.AC_TYPES_DIR)
      \/ cmdline.backend = "sc" /\ ~TruthyS(env.SC_TYPES_DIR) )
        => /\ c_flags = <<>>
           /\ cmdline.backend = "sc" => ld_flags = <<>>

----------------------------------------------------------------------------
\* The order of the steps of a session

IsWrite(e, name) == e.kind = "write" /\ e.what = name
IsAsli(e) == e.kind = "proc" /\ e.what = "asli"
NativeSteps == {"asli-query", "which", "cc -c", "cc -o"}

\* the step of a session an event belongs to: making the directory, the
\* script file, the configuration file, the external compiler, the native
\* compile and link with its queries, the execution, the cleanup
StepOf(e) ==
    IF e.kind = "mkdir" THEN 0
    ELSE IF IsWrite(e, "/asl2c.prj") THEN 1
    ELSE IF IsWrite(e, "/config.json") THEN 2
    ELSE IF IsAsli(e) THEN 3
    ELSE IF e.kind = "proc" /\ e.what \in NativeSteps THEN 4
    ELSE IF e.kind = "proc" THEN 5
    ELSE 6

\* the events of the session are in the order of their steps, each of the
\* steps up to the external compiler taken once, and a subprocess that
\* failed is the last event, unless it is a `which`
Sequential ==
    \A i \in 1..(Len(events) - 1) :
        /\ StepOf(events[i]) <= StepOf(events[i + 1])
        /\ StepOf(events[i]) <= 3 => StepOf(events[i]) < StepOf(events[i + 1])
        /\ (events[i].kind = "proc" /\ events[i].rc # 0)
              => /\ events[i].what = "which"
                 /\ events[i + 1].what \in {"which", "cc -c", "cc -o"}

\* the j-th event has the script written and then the configuration
\* written before it
BothWrittenBefore(j) ==
    \E i \in 1..(j - 1) :
        /\ IsWrite(events[i], "/asl2c.prj")
        /\ \E k \in (i + 1)..(j - 1) : IsWrite(events[k], "/config.json")

\* C11 as claimed: in every session the events are in the order script
\* file, configuration file, external compiler, native compile and link,
\* executable, cleanup; the external compiler is started only after both
\* files were written, and a step is started only after the subprocesses
\* before it ended with status 0.
C11_BothFilesBeforeEveryCompilerRun ==
    /\ Sequential
    /\ \A j \in 1..Len(events) : IsAsli(events[j]) => BothWrittenBefore(j)

\* C11 as amended: the same in every session of main's last branch (a
\* build, or a run with a backend other than mlir and interpreter), where
\* both files are in the directory when the external compiler is started.
\* A run with backend mlir writes the configuration file only, then starts
\* the external compiler, then asl-opt, then cleans up; a run with backend
\* interpreter writes no file and starts the external compiler only.
C11_StepsInOrder ==
    /\ Sequential
    /\ \A j \in 1..Len(events) :
          IsAsli(events[j]) =>
             IF args.backend = "interpreter" THEN Len(events) = 1
             ELSE IF InMlirBranch
             THEN /\ \E k \in 1..(j - 1) : IsWrite(events[k], "/config.json")
                  /\ \A k \in 1..Len(events) : ~IsWrite(events[k], "/asl2c.prj")
             ELSE BothWrittenBefore(j)
    /\ pc \in {"run_asli", "get_c_flags"}
          => /\ "/asl2c.prj" \in DOMAIN fs[workdir].files
             /\ fs[workdir].files["/asl2c.prj"] = script
             /\ "/config.json" \in DOMAIN fs[workdir].files

\* C11, witness: a session has written both files, compiled, linked, run
\* the executable and removed its directory.
C11_Witness ==
    /\ pc = "exited"
    /\ status = 0
    /\ Len(events) >= 7
    /\ \E j \in 1..Len(events) : IsAsli(events[j]) /\ BothWrittenBefore(j)
    /\ \E j \in 1..Len(events) : events[j].what = "cc -c"
    /\ \E j \in 1..Len(events) : events[j].what = "exe"
    /\ events[Len(events)].kind = "rmtree"

\* C12: a session for --build without --run and without --show-final-asl
\* that has ended well has started the native compiler to link the
\* executable, after the external compiler, and has not started the
\* executable.
C12_BuildCompilesAndLinks ==
    ( /\ pc = "exited"
      /\ status = 0
      /\ cmdline.build
      /\ ~cmdline.run
      /\ ~cmdline.show_final_asl
      /\ ~cmdline.print_c_flags
      /\ ~cmdline.print_ld_flags )
        => /\ \E j \in 1..Len(events) :
                 /\ events[j].kind = "proc"
                 /\ events[j].what = "cc -o"
                 /\ \E i \in 1..(j - 1) : IsAsli(events[i])
           /\ \A j \in 1..Len(events) : events[j].what # "exe"

----------------------------------------------------------------------------
\* Scenarios of script generation

\* the positions of the stages of a name, and of the code generation
StagesNamed(g, name) == { k \in 1..Len(g) : g[k].colon /\ StageName(g[k]) = name }
CodegenStages(g) == { k \in 1..Len(g) : g[k].colon /\ IsCodegen(g[k]) }
HasWord(l, w) == \E i \in 1..Len(l.words) : l.words[i] = w

\* the scenario: backend c23, exports Reset and Step, 8 files
SplitWithExports(c) ==
    /\ c.backend = "c23"
    /\ c.exports = <<"Reset", "Step">>
    /\ c.num_c_files = 8

\* what the scenario expects of the script
OneC23CodegenOf8Files(g) ==
    /\ Cardinality(CodegenStages(g)) = 1
    /\ \A k \in CodegenStages(g) :
          /\ StageName(g[k]) = "generate_c"
          /\ HasWord(g[k], W("--runtime=c23"))
          /\ HasWord(g[k], <<"--num-c-files=", "8">>)
    /\ Cardinality(StagesNamed(g, "xform_monomorphize")) = 2

\* C13 as claimed: the command line with backend c23, exports Reset and
\* Step and 8 files is accepted, and its script has one code generation
\* stage, for c23 with --num-c-files=8, and two xform_monomorphize stages.
C13_SplitWithExportsAccepted ==
    (SplitWithExports(cmdline) /\ pc = "exited")
        => status = 0 /\ JustGenerated /\ OneC23CodegenOf8Files(script)

\* C13 as amended: the command line with backend c23 and 8 files and no
\* exports is accepted and its script of the full mode has one code
\* generation stage, for c23 with --num-c-files=8, and two
\* xform_monomorphize stages.  With exports Reset and Step added, the
\* command line is rejected, whatever else it holds: exports need --build
\* or --run, with which a file count other than 1 is refused.
C13_SplitAcceptedWithoutExports ==
    /\ LET c == [cmdline EXCEPT !.backend = "c23", !.num_c_files = 8,
                                !.exports = <<"Reset", "Step">>]
       IN  /\ ~validate(c).ok
           /\ validate(c).msg =
                 IF validate(c).args.build
                 THEN "Error: don't specify --num-c-files if building or running"
                 ELSE IF TruthyL(c.asl_files)
                 THEN "Error: only provide input files if building or running"
                 ELSE "Error: don't specify --imports or --exports or --extra-c if not building or not running"
    /\ (cmdline = [DefaultArgs EXCEPT !.num_c_files = 8] /\ pc = "exited")
          => status = 0 /\ JustGenerated
    /\ (cmdline.backend = "c23" /\ cmdline.num_c_files = 8 /\ ~cmdline.O0
          /\ JustGenerated)
          => OneC23CodegenOf8Files(script)

\* C13, witness: the script for backend c23 and 8 files has been printed.
C13_Witness ==
    /\ pc = "exited"
    /\ cmdline = [DefaultArgs EXCEPT !.num_c_files = 8]
    /\ status = 0
    /\ OneC23CodegenOf8Files(stdout)

\* C14: the last directive of every generated script, of the full and of
\* the minimal mode, is quit, which the script has once.
C14_QuitIsLast ==
    JustGenerated =>
        LET D == Directives(script)
        IN  /\ Len(D) > 0
            /\ D[Len(D)] = Dir(Ws(<<"quit">>))
            /\ Cardinality(StagesNamed(script, "quit")) = 1

\* the stages of a name are all ahead of the first xform_constprop
BeforeConstprop(g, name) ==
    \A k \in StagesNamed(g, name) : \A c \in StagesNamed(g, "xform_constprop") : k < c

\* C15: with and without --transform-int-slices and --instrument-unknown,
\* mk_script returns a script in the full mode, which has the stage
\* xform_int_bitslices exactly with the first option and the stage
\* xform_valid exactly with the second, ahead of the first xform_constprop.
C15_SliceAndValidStages ==
    /\ err # "NameError"
    /\ (JustGenerated /\ ~cmdline.O0) =>
          /\ (StagesNamed(script, "xform_int_bitslices") # {}) = cmdline.transform_int_slices
          /\ (StagesNamed(script, "xform_valid") # {}) = cmdline.instrument_unknown
          /\ BeforeConstprop(script, "xform_int_bitslices")
          /\ BeforeConstprop(script, "xform_valid")

\* C16: with --show-final-asl, in the minimal and in the full mode, the
\* generated script has a raw dump (show --format=raw) after its
\* transformations and no code generation stage, and the session starts
\* neither the native compiler nor the executable.
C16_ShowFinalAslDumps ==
    cmdline.show_final_asl =>
        /\ JustGenerated =>
              /\ CodegenStages(script) = {}
              /\ \E k \in 1..Len(script) :
                    /\ script[k] = Dir(Ws(<<"show", "--format=raw">>))
                    /\ \A j \in (k + 1)..Len(script) :
                          script[j].colon => StageName(script[j]) = "quit"
        /\ \A j \in 1..Len(events) :
              events[j].what \notin {"which", "cc -c", "cc -o", "exe"}

----------------------------------------------------------------------------
\* The files of a session

\* the names of an array of the configuration file: the pieces of the word
\* that are not brackets, quotes or commas
Punctuation == {"[", "]", "],", "\"", ","}
NamesIn(w) == SelectSeq(w, LAMBDA x : x \notin Punctuation)

\* the configuration file has just been written
ConfigWritten == pc \in {"run_asli", "mlir_asli"}

\* C17: the configuration file a session has written has, in "exports",
\* main and then the exports of the command line in their order, and in
\* "imports" the imports of the command line in their order: [] when there
\* are none.
C17_ConfigListsMainThenExports ==
    ConfigWritten =>
        /\ "/config.json" \in DOMAIN fs[workdir].files
        /\ LET f == fs[workdir].files["/config.json"]
           IN  /\ Len(f) = 4
               /\ f[2].words[1] = W("\"exports\":")
               /\ NamesIn(f[2].words[2]) = <<"main">> \o cmdline.exports
               /\ f[3].words[1] = W("\"imports\":")
               /\ NamesIn(f[3].words[2]) = cmdline.imports
               /\ cmdline.imports = <<>> => f[3].words[2] = <<"[", "]">>

\* C17, witness: a session with two exports and no imports has written its
\* configuration file.
C17_Witness ==
    /\ ConfigWritten
    /\ cmdline.exports = <<"Reset", "Step">>
    /\ cmdline.imports = <<>>
    /\ Len(fs[workdir].files["/config.json"]) = 4

\* C18: a session given a working directory that exists, with files of
\* the names the session derives in it, acquires it without failing, and
\* after its writes has in these files what it has generated itself,
\* whatever they held: in asl2c.prj its script and in config.json its
\* configuration.  (The branch for backend mlir derives and writes
\* config.json only.)
C18_ExistingFilesOverwritten ==
    (TruthyS(cmdline.working_dir) /\ fs[cmdline.working_dir].exists) =>
        /\ pc = "mk_script" => workdir = cmdline.working_dir /\ err = "none"
        /\ ConfigWritten =>
              /\ workdir = cmdline.working_dir
              /\ err = "none"
              /\ fs[workdir].files["/config.json"] =
                    ConfigText(<<"main">> \o args.exports, args.imports)
              /\ fs[workdir].files["/config.json"] # OldContent
        /\ pc = "run_asli" =>
              /\ mk_script(args, workdir).err = "none"
              /\ fs[workdir].files["/asl2c.prj"] = mk_script(args, workdir).lines
              /\ fs[workdir].files["/asl2c.prj"] # OldContent

\* C18, witness: a run in the directory "old", which held both files, has
\* written its script and its configuration over them.
C18_Witness ==
    /\ pc = "run_asli"
    /\ cmdline.run
    /\ cmdline.working_dir = "old"
    /\ InitFs["old"].files["/asl2c.prj"] = OldContent
    /\ InitFs["old"].files["/config.json"] = OldContent
    /\ fs["old"].files["/asl2c.prj"] = script
    /\ script # OldContent

----------------------------------------------------------------------------
\* The bounded-integer stage

\* C19: a generated script, of the full or of the minimal mode, has the
\* stage xform_bounded once with -Obounded and not at all without it, and
\* no xform_ stage after it.
C19_BoundedOnceAndLast ==
    JustGenerated =>
        /\ Cardinality(StagesNamed(script, "xform_bounded")) =
              (IF cmdline.Obounded THEN 1 ELSE 0)
        /\ \A k \in StagesNamed(script, "xform_bounded") :
              \A j \in (k + 1)..Len(script) :
                  script[j].colon => ~IsXform(script[j])

\* C19, witness: a script of the full mode with the stage xform_bounded,
\* after other xform_ stages, has been generated.
C19_Witness ==
    /\ JustGenerated
    /\ cmdline.Obounded
    /\ ~cmdline.O0
    /\ \E k \in StagesNamed(script, "xform_bounded") :
          \E j \in 1..(k - 1) : script[j].colon /\ IsXform(script[j])

\* the words of a command that hand asli the directive xform_bounded
ExecBounded(cmd) == { i \in 1..Len(cmd) : cmd[i] = W("--exec=:xform_bounded") }

\* C20: in a session with -Obounded that starts the external compiler, the
\* directive xform_bounded is handed to it once, counting the script file
\* and the --exec options of its command line, and not by an --exec option
\* ahead of the script.
C20_BoundedHandedOnce ==
    cmdline.Obounded =>
        \A j \in 1..Len(events) :
            IsAsli(events[j]) =>
                /\ Cardinality(ExecBounded(events[j].cmd))
                     + Cardinality(StagesNamed(script, "xform_bounded")) = 1
                /\ script # <<>> => ExecBounded(events[j].cmd) = {}

----------------------------------------------------------------------------
\* The two specializations

\* the flag of the two xform_monomorphize stages
SplitFlag == IF cmdline.auto_case_split THEN "--auto-case-split"
                                        ELSE "--no-auto-case-split"

\* C21: the stages of a script of the full mode have xform_monomorphize
\* twice, both times with --auto-case-split if the option is set and with
\* --no-auto-case-split if not, and between the two one stage, which is
\* filter_reachable_from.
C21_TwoSpecializationsAroundFilter ==
    (JustGenerated /\ ~cmdline.O0) =>
        LET st == Stages(script)
            M == { k \in 1..Len(st) : StageName(st[k]) = "xform_monomorphize" }
        IN  /\ Cardinality(M) = 2
            /\ \A k \in M : st[k] = Dir(Ws(<<"xform_monomorphize", SplitFlag>>))
            /\ \E k \in M :
                  /\ k + 2 \in M
                  /\ StageName(st[k + 1]) = "filter_reachable_from"

\* C21, witness: a script of the full mode has been generated with
\* --auto-case-split, which its first specialization carries.
C21_Witness ==
    /\ JustGenerated
    /\ ~cmdline.O0
    /\ cmdline.auto_case_split
    /\ \E k \in StagesNamed(script, "xform_monomorphize") :
          script[k].words = Ws(<<"xform_monomorphize", "--auto-case-split">>)

----------------------------------------------------------------------------
\* The code generation stage and the backend tables

\* the code generation stages of a script
Codegens(g) == { g[k] : k \in CodegenStages(g) }

\* C22: for options with which the scripts end in code generation, the
\* code generation stage of the script of the minimal mode is the one of
\* the script of the full mode: the same directive with the same
\* arguments.
C22_SameCodegenInBothModes ==
    (JustGenerated /\ ~cmdline.show_final_asl
       /\ MinimalFor(OutputDirectory).err = "none"
       /\ FullFor(OutputDirectory).err = "none")
        => Codegens(MinimalFor(OutputDirectory).lines)
             = Codegens(FullFor(OutputDirectory).lines)

\* C23: a request that passed the validation of the options never ends in
\* the lookup of its backend in a table that has no entry for it (the
\* table of the code generation directives, of the compile flags or of the
\* link flags).
C23_EveryLookupFindsAnEntry ==
    (pc = "exited" /\ cmdline.backend \in Backends /\ validate(cmdline).ok)
        => err # "KeyError"

----------------------------------------------------------------------------
\* The files of the user in the working directory

\* C24: when the first session is given a working directory that existed
\* before it, the file of that directory that is none of the files the
\* session derives its names for is still there, with its content, when
\* the session has ended, with or without --save-temps.
C24_OtherFilesKept ==
    (session = 1 /\ pc = "exited" /\ cmdline.working_dir = "old"
       /\ workdir = "old" /\ InitFs["old"].exists)
        => /\ fs["old"].exists
           /\ "/notes.txt" \in DOMAIN fs["old"].files
           /\ fs["old"].files["/notes.txt"] = InitFs["old"].files["/notes.txt"]

====
